---- MODULE Spec2Model ----
(***************************************************************************)
(* Model of shakrmedia/changelog-generate-action.                          *)
(*                                                                         *)
(* The repository holds three near-duplicate action scripts:               *)
(*   "local"   src/src/main.ts lines 1-193    (git for-each-ref / git log) *)
(*   "update"  src/src/main.ts lines 195-523  (release listing,            *)
(*             updateRelease, Linear)                                      *)
(*   "create"  src/unnamed/part_000           (tag listing, createRelease) *)
(*                                                                         *)
(* Strings are sequences of atoms.  An atom is one character, or a literal *)
(* fragment that the code treats as a unit (a header, a scope name).       *)
(* The empty sequence stands for both '' and null/undefined where the code *)
(* only tests truthiness.                                                  *)
(***************************************************************************)
EXTENDS Integers, Sequences, FiniteSets, TLC

VARIABLES
    call,           \* pure-function harness: the function applied and its arguments
    ret,            \* pure-function harness: the value returned
    loop,           \* the state of one paginated fetch loop
    variant,        \* which script runs
    input,          \* core.getInput values and github.context.ref
    pc,             \* position of run()
    tags,           \* tag names the tag / release listing returns, newest first
    comparison,     \* parsed commits the comparison of the range returns
    range,          \* [from, to, version] destructured by run()
    fetched,        \* parsed commits accumulated by getCommits
    full_content,   \* the rendered changelog
    thrown,         \* the value thrown by the failing step
    failed,         \* core.setFailed calls
    log             \* external calls made by run(), in order

vars == <<call, ret, loop, variant, input, pc, tags, comparison, range, fetched,
          full_content, thrown, failed, log>>

\* getMessage's null: no accepted message has an empty type
Null == [type |-> "", text |-> <<>>]
NL == "\n"
SP == " "
COMMA == ","

----------------------------------------------------------------------------
(* Strings *)

\* Array.prototype.join
RECURSIVE Join(_, _)
Join(list, sep) ==
    IF list = <<>> THEN <<>>
    ELSE IF Len(list) = 1 THEN Head(list)
    ELSE Head(list) \o <<sep>> \o Join(Tail(list), sep)

IsSpace(c) == c \in {SP, NL}

RECURSIVE TrimStart(_)
TrimStart(s) ==
    IF s # <<>> /\ IsSpace(Head(s)) THEN TrimStart(Tail(s)) ELSE s

RECURSIVE TrimEnd(_)
TrimEnd(s) ==
    IF s # <<>> /\ IsSpace(s[Len(s)]) THEN TrimEnd(SubSeq(s, 1, Len(s) - 1)) ELSE s

\* String.prototype.trim
Trim(s) == TrimEnd(TrimStart(s))

\* String.prototype.split(','): always at least one segment
RECURSIVE SplitFrom(_, _)
SplitFrom(s, cur) ==
    IF s = <<>> THEN <<cur>>
    ELSE IF Head(s) = COMMA THEN <<cur>> \o SplitFrom(Tail(s), <<>>)
    ELSE SplitFrom(Tail(s), Append(cur, Head(s)))

Split(s) == SplitFrom(s, <<>>)

\* String.prototype.toUpperCase on one UTF-16 code unit.  "sz" is U+00DF,
\* whose upper-case form is the two code units "SS".
ToUpperCase(c) ==
    CASE c = "a" -> <<"A">>
      [] c = "b" -> <<"B">>
      [] c = "sz" -> <<"S", "S">>
      [] OTHER -> <<c>>

----------------------------------------------------------------------------
(* Commit classifier and changelog renderer *)

support_types == <<"feat", "fix">>

SupportTypeSet == {support_types[i] : i \in DOMAIN support_types}

type_titles == [feat |-> "*Enhancements*", fix |-> "*Bug Fixes*"]

\* Mutation: upper-cases every character of the subject.
RECURSIVE CapitalizeAll(_)
CapitalizeAll(subject) ==
    IF subject = <<>> THEN <<>>
    ELSE ToUpperCase(Head(subject)) \o CapitalizeAll(Tail(subject))

\* `${subject.charAt(0).toUpperCase()}${subject.substring(1)}`
Capitalize(subject) == ToUpperCase(Head(subject)) \o Tail(subject)

getMessage(v, target_scope, commit) ==
    IF /\ commit.type # ""
       /\ (v = "update" => commit.type \in SupportTypeSet)
       /\ commit.subject # <<>>
       /\ \/ commit.scope = target_scope
          \/ (commit.scope = <<>> /\ target_scope = <<>>)
    THEN [type |-> commit.type, text |-> Capitalize(commit.subject)]
    ELSE Null

InternalFooter(commit) == commit.footer = "Internal-commit:"

\* the reduce of getMessages: group texts by type, in commit order
RECURSIVE GroupByType(_, _)
GroupByType(msgs, acc) ==
    IF msgs = <<>> THEN acc
    ELSE LET m == Head(msgs)
             old == IF m.type \in DOMAIN acc THEN acc[m.type] ELSE <<>>
             new == [t \in DOMAIN acc \cup {m.type} |->
                        IF t = m.type THEN Append(old, m.text) ELSE acc[t]]
         IN GroupByType(Tail(msgs), new)

EmptyMap == [t \in {} |-> <<>>]

RECURSIVE FilterMap(_, _, _, _)
FilterMap(v, project, commits, internal) ==
    IF commits = <<>> THEN <<>>
    ELSE LET c == Head(commits)
             rest == FilterMap(v, project, Tail(commits), internal)
             keep == ~internal \/ ~InternalFooter(c)
             m == getMessage(v, project, c)
         IN IF keep /\ m # Null /\ (v # "update" => m.type \in SupportTypeSet)
            THEN <<m>> \o rest
            ELSE rest

\* "update" has no `internal` parameter: its footer filter always applies
getMessages(v, project, commits, internal) ==
    GroupByType(FilterMap(v, project, commits, internal \/ v = "update"), EmptyMap)

paragraph(header, list) ==
    IF Len(list) > 0 THEN <<header, NL>> \o Join(list, NL) ELSE <<>>

getTypeContent(type, messages) == paragraph(type_titles[type], messages)

RECURSIVE ContentFrom(_, _)
ContentFrom(messages_with_type, i) ==
    IF i > Len(support_types) THEN <<>>
    ELSE LET type == support_types[i]
         IN (IF type \notin DOMAIN messages_with_type THEN <<>>
             ELSE getTypeContent(type, messages_with_type[type]) \o <<NL, NL>>)
            \o ContentFrom(messages_with_type, i + 1)

getContent(messages_with_type) == ContentFrom(messages_with_type, 1)

----------------------------------------------------------------------------
(* Bounded domains *)

MaxSubjectLen == 3
MaxEntries == 2

Variants == {"local", "update", "create"}

Alphabet == {"a", "b", "A", "1", "sz"}

RECURSIVE SeqsUpTo(_, _)
SeqsUpTo(S, n) ==
    IF n = 0 THEN {<<>>}
    ELSE LET shorter == SeqsUpTo(S, n - 1)
         IN shorter \cup {Append(s, x) : s \in shorter, x \in S}

Subjects == SeqsUpTo(Alphabet, MaxSubjectLen)

Texts == {<<"A">>, <<"B">>}

EntryLists == SeqsUpTo(Texts, MaxEntries)

TypeMaps ==
    UNION {[D -> EntryLists] : D \in SUBSET SupportTypeSet}

----------------------------------------------------------------------------
(* Variables a specification does not use stay at these values *)

\* run() has not destructured a range yet
NoRange == [from |-> "", to |-> "", version |-> ""]

IdleHarness == call = [fn |-> "none"] /\ ret = <<>>
IdleLoop == loop = [fn |-> "none"]
IdleRun ==
    /\ variant = "none"
    /\ input = [ref |-> "none"]
    /\ pc = "idle"
    /\ tags = <<>>
    /\ comparison = <<>>
    /\ range = NoRange
    /\ fetched = <<>>
    /\ full_content = <<>>
    /\ thrown = "none"
    /\ failed = <<>>
    /\ log = <<>>

runVars == <<variant, input, pc, tags, comparison, range, fetched, full_content,
             thrown, failed, log>>

----------------------------------------------------------------------------
(* getMessage applied to one parsed commit, then to its own result *)

InitGetMessage ==
    /\ call \in [fn : {"getMessage"},
                  variant : Variants,
                  target_scope : {<<>>, <<"app">>},
                  commit : [type : {"feat", "chore", ""},
                            scope : {<<>>, <<"app">>},
                            subject : Subjects,
                            footer : {""}]]
    /\ ret = <<>>
    /\ IdleLoop /\ IdleRun

CallGetMessage ==
    /\ call.fn = "getMessage"
    /\ ret = <<>>
    /\ ret' = <<getMessage(call.variant, call.target_scope, call.commit)>>
    /\ UNCHANGED <<call, loop, runVars>>

\* the accepted text fed back as the subject of the same commit
CallGetMessageAgain ==
    /\ call.fn = "getMessage"
    /\ Len(ret) = 1
    /\ ret[1] # Null
    /\ ret' = Append(ret, getMessage(call.variant, call.target_scope,
                                     [call.commit EXCEPT !.subject = ret[1].text]))
    /\ UNCHANGED <<call, loop, runVars>>

NextGetMessage == CallGetMessage \/ CallGetMessageAgain

SpecGetMessage == InitGetMessage /\ [][NextGetMessage]_vars

----------------------------------------------------------------------------
(* getContent applied to one type-to-entries map *)

InitGetContent ==
    /\ call \in [fn : {"getContent"}, messages_with_type : TypeMaps]
    /\ ret = <<>>
    /\ IdleLoop /\ IdleRun

CallGetContent ==
    /\ call.fn = "getContent"
    /\ ret = <<>>
    /\ ret' = <<getContent(call.messages_with_type)>>
    /\ UNCHANGED <<call, loop, runVars>>

NextGetContent == CallGetContent

SpecGetContent == InitGetContent /\ [][NextGetContent]_vars

----------------------------------------------------------------------------
(* Paginated fetch loops.  The data source holds `total` items, newest     *)
(* first; `match` are the positions of the items the loop's filter keeps.  *)
(* One action is one pass of the loop body, its exit test included.        *)

PerPage == 100
MaxPages == 2
MaxRequests == 2

Min(a, b) == IF a < b THEN a ELSE b

\* the positions on page p of a listing of `total` items
PageOf(total, p) == ((p - 1) * PerPage + 1)..Min(p * PerPage, total)

\* the same positions in listing order
PageSeq(total, p) ==
    [i \in 1..Cardinality(PageOf(total, p)) |-> (p - 1) * PerPage + i]

RECURSIVE SortedSeq(_)
SortedSeq(S) ==
    IF S = {} THEN <<>>
    ELSE LET m == CHOOSE x \in S : \A y \in S : x <= y
         IN <<m>> \o SortedSeq(S \ {m})

\* Array.prototype.slice(0, n)
Slice(s, n) == SubSeq(s, 1, Min(n, Len(s)))

Totals ==
    {0, 1, 2} \cup {k * PerPage + d : k \in 1..MaxPages, d \in {-1, 0, 1}}

Positions ==
    {1, 2} \cup {k * PerPage + d : k \in 1..MaxPages, d \in {0, 1}}

NewLoop(fn, total, match) ==
    [fn |-> fn, total |-> total, match |-> match, page |-> 1, acc |-> <<>>,
     requests |-> 0, shortSeen |-> FALSE, done |-> FALSE]

InitLoops ==
    /\ \E fn \in {"listTags", "listReleases", "compareCommitsWithBasehead"},
          total \in Totals, match \in SUBSET Positions :
            /\ \A i \in match : i <= total
            /\ (fn = "compareCommitsWithBasehead" => match = {})
            /\ loop = NewLoop(fn, total, match)
    /\ IdleHarness /\ IdleRun

\* getLatestTaggedCommit: while (matched_tags.length < 2) { ... }
TagsPass(l) ==
    LET data == PageOf(l.total, l.page)
        matched == Slice(SortedSeq(data \cap l.match), 2)
        acc == l.acc \o matched
        short == Cardinality(data) < PerPage
    IN [l EXCEPT !.acc = acc,
                 !.page = l.page + 1,
                 !.requests = l.requests + 1,
                 !.shortSeen = short,
                 !.done = short \/ ~(Len(acc) < 2)]

\* findPreviousRelease: while (!previous_release_tag) { ... }
ReleasesPass(l) ==
    LET data == PageOf(l.total, l.page)
        found == Slice(SortedSeq(data \cap l.match), 1)
        short == Cardinality(data) < PerPage
    IN [l EXCEPT !.acc = found,
                 !.page = l.page + 1,
                 !.requests = l.requests + 1,
                 !.shortSeen = short,
                 !.done = short \/ found # <<>>]

\* getCommits ("update"): while (true) { ... }; `page` is never advanced and
\* the loop is left only on an empty page
CommitsPass(l) ==
    LET data == PageOf(l.total, l.page)
        short == Cardinality(data) < PerPage
    IN [l EXCEPT !.acc = l.acc \o PageSeq(l.total, l.page),
                 !.requests = l.requests + 1,
                 !.shortSeen = short,
                 !.done = Cardinality(data) = 0]

ListTagsPass ==
    /\ loop.fn = "listTags"
    /\ ~loop.done
    /\ loop' = TagsPass(loop)
    /\ UNCHANGED <<call, ret, runVars>>

ListReleasesPass ==
    /\ loop.fn = "listReleases"
    /\ ~loop.done
    /\ loop' = ReleasesPass(loop)
    /\ UNCHANGED <<call, ret, runVars>>

\* the model stops following the loop after MaxRequests requests
CompareCommitsPass ==
    /\ loop.fn = "compareCommitsWithBasehead"
    /\ ~loop.done
    /\ loop.requests < MaxRequests
    /\ loop' = CommitsPass(loop)
    /\ UNCHANGED <<call, ret, runVars>>

NextLoops == ListTagsPass \/ ListReleasesPass \/ CompareCommitsPass

SpecLoops == InitLoops /\ [][NextLoops]_vars

----------------------------------------------------------------------------
(* Linear: markLinearIssuesAsDone and getTeamStateIdMap *)

MaxShas == 2
MaxStates == 3

Undefined == "undefined"
NoTeam == "noTeam"

IssueIds == {"ENG-1", "OPS-2"}

\* body.match(/Resolves\s([A-Z0-9]+-[0-9]+)/)?.[1]: the first match only
RECURSIVE MatchIssue(_)
MatchIssue(body) ==
    IF Len(body) < 3 THEN Undefined
    ELSE IF body[1] = "Resolves" /\ IsSpace(body[2]) /\ body[3] \in IssueIds
         THEN body[3]
         ELSE MatchIssue(Tail(body))

\* res.data.length > 0 ? res.data[0].body : null
FirstBody(prs) == IF Len(prs) > 0 THEN prs[1] ELSE <<>>

\* [...new Set(ids)]: first occurrences, in order
RECURSIVE Dedup(_, _)
Dedup(ids, seen) ==
    IF ids = <<>> THEN <<>>
    ELSE IF Head(ids) \in seen THEN Dedup(Tail(ids), seen)
    ELSE <<Head(ids)>> \o Dedup(Tail(ids), seen \cup {Head(ids)})

RECURSIVE MatchedIds(_)
MatchedIds(prLists) ==
    IF prLists = <<>> THEN <<>>
    ELSE LET body == FirstBody(Head(prLists))
             id == IF body = <<>> THEN Undefined ELSE MatchIssue(body)
         IN (IF id = Undefined THEN <<>> ELSE <<id>>) \o MatchedIds(Tail(prLists))

linear_issues(prLists) == Dedup(MatchedIds(prLists), {})

DoneStates(states) == SelectSeq(states, LAMBDA st : st.name = "Done")

\* new Map(pairs): a later pair for the same team replaces an earlier one;
\* a Done state without a team yields no pair
RECURSIVE TeamStatePairs(_, _)
TeamStatePairs(done_states, map) ==
    IF done_states = <<>> THEN map
    ELSE LET st == Head(done_states)
         IN TeamStatePairs(Tail(done_states),
                IF st.team = NoTeam THEN map
                ELSE [t \in DOMAIN map \cup {st.team} |->
                         IF t = st.team THEN st.id ELSE map[t]])

getTeamStateIdMap(states) == TeamStatePairs(DoneStates(states), [t \in {} |-> ""])

\* team_state_id_map.get(team?.id ?? '')
StateIdFor(map, team) ==
    IF team # NoTeam /\ team \in DOMAIN map THEN map[team] ELSE Undefined

\* the whole of markLinearIssuesAsDone: it throws when the workspace has no
\* "Done" state, else sends one update per element of linear_issues
markLinearIssuesAsDone(prLists, teamOf, states) ==
    LET ids == linear_issues(prLists)
    IN IF DoneStates(states) = <<>>
       THEN [threw |-> TRUE, updates |-> <<>>]
       ELSE [threw |-> FALSE,
             updates |-> [i \in DOMAIN ids |->
                            [issue |-> ids[i],
                             stateId |-> StateIdFor(getTeamStateIdMap(states),
                                                    teamOf[ids[i]])]]]

Bodies ==
    { <<>>,
      <<"text">>,
      <<"Resolves", SP, "ENG-1">>,
      <<"text", NL, "Resolves", SP, "OPS-2">>,
      <<"Fixes", SP, "ENG-1">>,
      <<"Resolves", SP, "ENG-1", NL, "Resolves", SP, "OPS-2">> }

PrLists == {<<>>} \cup {<<b>> : b \in Bodies}
             \cup {<<<<"Resolves", SP, "OPS-2">>, <<"Resolves", SP, "ENG-1">>>>}

WorkflowStates ==
    { [id |-> "s1", name |-> "Done", team |-> "T1"],
      [id |-> "s2", name |-> "Done", team |-> "T2"],
      [id |-> "s3", name |-> "Todo", team |-> "T1"],
      [id |-> "s4", name |-> "Done", team |-> NoTeam] }

Distinct(s) == \A i, j \in DOMAIN s : i # j => s[i] # s[j]

InitLinear ==
    /\ call \in [fn : {"markLinearIssuesAsDone"},
                  prLists : SeqsUpTo(PrLists, MaxShas),
                  teamOf : [IssueIds -> {"T1", "T2", NoTeam}],
                  states : {w \in SeqsUpTo(WorkflowStates, MaxStates) : Distinct(w)}]
    /\ ret = <<>>
    /\ IdleLoop /\ IdleRun

CallMarkLinearIssuesAsDone ==
    /\ call.fn = "markLinearIssuesAsDone"
    /\ ret = <<>>
    /\ ret' = <<markLinearIssuesAsDone(call.prLists, call.teamOf, call.states)>>
    /\ UNCHANGED <<call, loop, runVars>>

NextLinear == CallMarkLinearIssuesAsDone

SpecLinear == InitLinear /\ [][NextLinear]_vars

----------------------------------------------------------------------------
(* run(): range resolver *)

MaxTags == 2
MaxCommits == 2

\* tag names: "cur" is the tag of github.context.ref, "x" does not start with
\* tag_prefix, the others do
TagNames == {"cur", "m1", "m2", "x"}

StartsWithPrefix(name) == name # "x"

\* the commit a tag points to
Sha(name) ==
    CASE name = "cur" -> "sha-cur"
      [] name = "m1" -> "sha-m1"
      [] name = "m2" -> "sha-m2"
      [] OTHER -> "sha-x"

TagLists == {t \in SeqsUpTo(TagNames, MaxTags) : Distinct(t)}

Api(name, ok) == [api |-> name, ok |-> ok]

RECURSIVE Repeat(_, _)
Repeat(x, n) == IF n = 0 THEN <<>> ELSE <<x>> \o Repeat(x, n - 1)

RECURSIVE RunTagsLoop(_)
RunTagsLoop(l) == IF l.done THEN l ELSE RunTagsLoop(TagsPass(l))

RECURSIVE RunReleasesLoop(_)
RunReleasesLoop(l) == IF l.done THEN l ELSE RunReleasesLoop(ReleasesPass(l))

Threw(calls) == [threw |-> TRUE, range |-> NoRange, calls |-> calls]
Returned(r, calls) == [threw |-> FALSE, range |-> r, calls |-> calls]

\* "create": getLatestTaggedCommit(token, prefix)
getLatestTaggedCommitRemote(list) ==
    LET l == RunTagsLoop(NewLoop("listTags", Len(list),
                                 {i \in DOMAIN list : StartsWithPrefix(list[i])}))
        matched_tags == [i \in DOMAIN l.acc |-> list[l.acc[i]]]
        calls == Repeat(Api("listTags", TRUE), l.requests)
    IN IF Len(matched_tags) < 2 THEN Threw(calls)
       ELSE Returned([from |-> Sha(matched_tags[2]),
                      to |-> Sha(matched_tags[1]),
                      version |-> matched_tags[1]], calls)

\* "local": getLatestTaggedCommit(prefix).  git prints at most two matching
\* refs, newest first; ''.split('\n') is [''] and `git rev-parse ''` fails;
\* with one line the second element of the destructured array is undefined.
\* run() then reads the pair as [commit_from, commit_to].
getLatestTaggedCommitLocal(list) ==
    LET lines == Slice(SelectSeq(list, StartsWithPrefix), 2)
        forEachRef == <<Api("git for-each-ref", TRUE)>>
    IN IF lines = <<>> THEN Threw(forEachRef \o <<Api("git rev-parse", FALSE)>>)
       ELSE LET current == Sha(lines[1])
                latest == IF Len(lines) >= 2 THEN Sha(lines[2]) ELSE Undefined
            IN Returned([from |-> current, to |-> latest, version |-> latest],
                        forEachRef \o Repeat(Api("git rev-parse", TRUE), Len(lines)))

\* "update": findPreviousRelease(token, tag_prefix).  getReleaseByTag answers
\* 404 when the current tag has no release.
findPreviousRelease(list) ==
    LET l == RunReleasesLoop(NewLoop("listReleases", Len(list),
                 {i \in DOMAIN list : list[i] # "cur" /\ StartsWithPrefix(list[i])}))
        listed == Repeat(Api("listReleases", TRUE), l.requests)
        hasCurrent == \E i \in DOMAIN list : list[i] = "cur"
        refs == <<Api("getRef", TRUE), Api("getRef", TRUE),
                  Api("getReleaseByTag", hasCurrent)>>
    IN IF l.acc = <<>> THEN Threw(listed)
       ELSE IF ~hasCurrent THEN Threw(listed \o refs)
       ELSE Returned([from |-> Sha(list[l.acc[1]]),
                      to |-> Sha("cur"),
                      version |-> "cur"], listed \o refs)

ResolveRange(v, list) ==
    CASE v = "create" -> getLatestTaggedCommitRemote(list)
      [] v = "update" -> findPreviousRelease(list)
      [] OTHER -> getLatestTaggedCommitLocal(list)

----------------------------------------------------------------------------
(* run(): classification and rendering *)

\* parsed commits; the second character of a subject identifies the commit
Commit(type, scope, id, footer) ==
    [type |-> type, scope |-> scope, subject |-> <<"a", id>>, footer |-> footer]

CommitKinds ==
    { Commit("feat", <<"app">>, "1", ""),
      Commit("fix", <<"app">>, "2", ""),
      Commit("feat", <<"lib">>, "3", ""),
      Commit("fix", <<"lib">>, "4", "Internal-commit:"),
      Commit("feat", <<>>, "5", ""),
      Commit("chore", <<"app">>, "6", "") }

CommitLists == SeqsUpTo(CommitKinds, MaxCommits)

\* values of the `dependent_scopes` input
DependentScopeInputs ==
    { <<>>,
      <<"lib">>,
      <<"app", COMMA, "lib">>,
      <<SP, "lib", COMMA, SP>> }

\* "update": .trim().split(',').filter(s => !!s.trim()); others: .split(',')
DependentScopes(v, str) ==
    IF v = "update"
    THEN SelectSeq(Split(Trim(str)), LAMBDA seg : Trim(seg) # <<>>)
    ELSE Split(str)

\* result_messages[type] = (result_messages[type] || []).concat(sub[type] || [])
MergeTypes(result_messages, sub_messages) ==
    [t \in DOMAIN result_messages \cup SupportTypeSet |->
        IF t \in SupportTypeSet
        THEN (IF t \in DOMAIN result_messages THEN result_messages[t] ELSE <<>>)
             \o (IF t \in DOMAIN sub_messages THEN sub_messages[t] ELSE <<>>)
        ELSE result_messages[t]]

RECURSIVE TypeMessageMap(_, _, _, _)
TypeMessageMap(v, deps, parsed, result_messages) ==
    IF deps = <<>> THEN result_messages
    ELSE TypeMessageMap(v, Tail(deps), parsed,
             MergeTypes(result_messages, getMessages(v, Head(deps), parsed, TRUE)))

\* "local": one getContent per dependent scope, appended when non-empty
RECURSIVE AssociatedContent(_, _)
AssociatedContent(deps, parsed) ==
    IF deps = <<>> THEN <<>>
    ELSE getContent(getMessages("local", Head(deps), parsed, TRUE))
         \o AssociatedContent(Tail(deps), parsed)

TITLE == "## <application_name> <version> (<date>)"
URL == "Compare URL: <url>"
LOCALHEAD == "Project: ... Changelog: *<date>* <deploy_url> (version <to>)"

\* the template of full_content, trimmed
FullContent(v, scope, str, parsed) ==
    LET deps == DependentScopes(v, str)
    IN IF v = "local"
       THEN Trim(<<NL, LOCALHEAD, NL, NL>>
                 \o getContent(getMessages(v, scope, parsed, FALSE))
                 \o AssociatedContent(deps, parsed) \o <<NL>>)
       ELSE Trim(<<NL, TITLE, NL, URL, NL, NL>>
                 \o getContent(TypeMessageMap(v, deps, parsed,
                                   getMessages(v, scope, parsed, FALSE)))
                 \o <<NL>>)

----------------------------------------------------------------------------
(* run(): one action per awaited step.  A step that calls an external      *)
(* service may end in a rejection: `fault` is "none", or the kind of value *)
(* thrown: an Error instance, or any other value.                          *)

Faults == {"none", "Error", "value"}

Refs == {<<"refs/tags/", "cur">>, <<"refs/tags/", "x">>, <<"refs/heads/", "main">>}

\* Mutation: the tag-prefix gate lets every ref through.
GateOpen(ref) == TRUE

\* github.context.ref.startsWith(`refs/tags/${tag_prefix}`)
GatePasses(ref) == ref[1] = "refs/tags/" /\ StartsWithPrefix(ref[2])

\* the pull requests associated with a commit, and the issues' teams, as the
\* services answer in a run
PrsOf(commit) == <<<<"Resolves", SP, "ENG-1">>>>
TeamOfIssue == [id \in IssueIds |-> IF id = "ENG-1" THEN "T1" ELSE "T2"]
RunWorkflows ==
    { <<>>,
      <<[id |-> "s3", name |-> "Todo", team |-> "T1"]>>,
      <<[id |-> "s1", name |-> "Done", team |-> "T1"]>> }

InitRun ==
    /\ variant \in Variants
    /\ \E scope \in {<<>>, <<"app">>}, str \in DependentScopeInputs,
          ref \in Refs, key \in {"", "key"} :
            /\ (variant # "update" => ref = <<"refs/tags/", "cur">> /\ key = "")
            /\ input = [scope |-> scope, dependent_scopes |-> str, ref |-> ref,
                        linear_api_key |-> key]
    /\ pc = "start"
    /\ tags = <<>>
    /\ comparison = <<>>
    /\ range = NoRange
    /\ fetched = <<>>
    /\ full_content = <<>>
    /\ thrown = "none"
    /\ failed = <<>>
    /\ log = <<>>
    /\ IdleHarness /\ IdleLoop

Throw(kind, calls) ==
    /\ thrown' = kind
    /\ log' = log \o calls
    /\ pc' = "caught"

\* the inputs are read; "update" returns at once when the ref fails the gate
Start ==
    /\ pc = "start"
    /\ pc' = IF variant = "update" /\ ~GatePasses(input.ref) THEN "done" ELSE "resolve"
    /\ UNCHANGED <<call, ret, loop, variant, input, tags, comparison, range,
                   fetched, full_content, thrown, failed, log>>

FirstResolveApi(v) ==
    CASE v = "create" -> "listTags"
      [] v = "update" -> "listReleases"
      [] OTHER -> "git for-each-ref"

\* getLatestTaggedCommit / findPreviousRelease and the destructuring in run()
ResolveStep ==
    /\ pc = "resolve"
    /\ \E list \in TagLists, fault \in Faults :
        IF fault # "none"
        THEN /\ Throw(fault, <<Api(FirstResolveApi(variant), FALSE)>>)
             /\ UNCHANGED <<tags, range>>
        ELSE LET r == ResolveRange(variant, list)
             IN /\ tags' = list
                /\ IF r.threw
                   THEN Throw("Error", r.calls) /\ UNCHANGED range
                   ELSE /\ range' = r.range
                        /\ log' = log \o r.calls
                        /\ pc' = "fetch"
                        /\ UNCHANGED thrown
    /\ UNCHANGED <<call, ret, loop, variant, input, comparison, fetched,
                   full_content, failed>>

FetchApi(v) ==
    CASE v = "create" -> "compareCommits"
      [] v = "update" -> "compareCommitsWithBasehead"
      [] OTHER -> "git log"

\* getCommits.  "create" and "local" make one call.  "update" makes one pass
\* of its loop per step (the comparison answers the same every time); the
\* model stops following it after MaxRequests requests.  `git log` fails on
\* an undefined revision.
FetchStep ==
    /\ pc = "fetch"
    /\ \E cs \in (IF loop.fn = "none" THEN CommitLists ELSE {comparison}),
          fault \in Faults :
        IF fault # "none" \/ (variant = "local" /\ range.to = Undefined)
        THEN /\ Throw(IF fault # "none" THEN fault ELSE "Error",
                      <<Api(FetchApi(variant), FALSE)>>)
             /\ UNCHANGED <<loop, comparison, fetched>>
        ELSE IF variant = "update"
        THEN LET l0 == IF loop.fn = "none"
                       THEN NewLoop("compareCommitsWithBasehead", Len(cs), {})
                       ELSE loop
                 l1 == CommitsPass(l0)
             IN /\ l0.requests < MaxRequests
                /\ loop' = l1
                /\ comparison' = cs
                /\ fetched' = [i \in DOMAIN l1.acc |-> cs[l1.acc[i]]]
                /\ log' = Append(log, Api(FetchApi(variant), TRUE))
                /\ pc' = IF l1.done THEN "render" ELSE "fetch"
                /\ UNCHANGED thrown
        ELSE /\ comparison' = cs
             /\ fetched' = cs
             /\ log' = Append(log, Api(FetchApi(variant), TRUE))
             /\ pc' = "render"
             /\ UNCHANGED <<loop, thrown>>
    /\ UNCHANGED <<call, ret, variant, input, tags, range, full_content, failed>>

\* the classification of the parsed commits and the template; "local" ends
\* here with core.debug(full_content)
RenderStep ==
    /\ pc = "render"
    /\ full_content' = FullContent(variant, input.scope, input.dependent_scopes, fetched)
    /\ pc' = IF variant = "local" THEN "done" ELSE "publish"
    /\ UNCHANGED <<call, ret, loop, variant, input, tags, comparison, range,
                   fetched, thrown, failed, log>>

PublishApi(v) == IF v = "update" THEN "updateRelease" ELSE "createRelease"

\* updateRelease / createRelease
PublishStep ==
    /\ pc = "publish"
    /\ \E fault \in Faults :
        IF fault # "none"
        THEN Throw(fault, <<Api(PublishApi(variant), FALSE)>>)
        ELSE /\ log' = Append(log, Api(PublishApi(variant), TRUE))
             /\ pc' = IF variant = "update" THEN "linear" ELSE "done"
             /\ UNCHANGED thrown
    /\ UNCHANGED <<call, ret, loop, variant, input, tags, comparison, range,
                   fetched, full_content, failed>>

\* if (linear_api_key)
LinearWanted(key) == key # ""

LinearCalls(result, n) ==
    Repeat(Api("listPullRequestsAssociatedWithCommit", TRUE), n)
    \o Repeat(Api("linear.issue", TRUE), Len(linear_issues([i \in 1..n |-> PrsOf(i)])))
    \o <<Api("linear.workflowStates", TRUE)>>
    \o [i \in DOMAIN result.updates |-> Api("linear.issueUpdate", TRUE)]

\* if (linear_api_key) await markLinearIssuesAsDone(token, linear_api_key, commit_shas)
LinearStep ==
    /\ pc = "linear"
    /\ IF ~LinearWanted(input.linear_api_key)
       THEN pc' = "done" /\ UNCHANGED <<thrown, log>>
       ELSE \E states \in RunWorkflows, fault \in Faults :
            IF fault # "none"
            THEN Throw(fault, <<Api("linear.workflowStates", FALSE)>>)
            ELSE LET result == markLinearIssuesAsDone(
                                   [i \in DOMAIN fetched |-> PrsOf(fetched[i])],
                                   TeamOfIssue, states)
                 IN IF result.threw
                    THEN Throw("Error", LinearCalls(result, Len(fetched)))
                    ELSE /\ log' = log \o LinearCalls(result, Len(fetched))
                         /\ pc' = "done"
                         /\ UNCHANGED thrown
    /\ UNCHANGED <<call, ret, loop, variant, input, tags, comparison, range,
                   fetched, full_content, failed>>

\* what core.setFailed is given: the message, or in "update" the Error itself
FailureReport(v) == IF v = "update" THEN "error" ELSE "error.message"

\* catch (error) { if (error instanceof Error) core.setFailed(...) }
CatchStep ==
    /\ pc = "caught"
    /\ failed' = IF thrown = "Error" THEN Append(failed, FailureReport(variant))
                 ELSE failed
    /\ pc' = "done"
    /\ UNCHANGED <<call, ret, loop, variant, input, tags, comparison, range,
                   fetched, full_content, thrown, log>>

NextRun ==
    \/ Start
    \/ ResolveStep
    \/ FetchStep
    \/ RenderStep
    \/ PublishStep
    \/ LinearStep
    \/ CatchStep

\* every script
SpecRun == InitRun /\ [][NextRun]_vars

\* the release-updating script
InitRunUpdate == InitRun /\ variant = "update"

SpecRunUpdate == InitRunUpdate /\ [][NextRun]_vars

----------------------------------------------------------------------------
(* Claims *)

Accepted == call.fn = "getMessage" /\ Len(ret) >= 1 /\ ret[1] # Null

\* C8 (as stated): for every commit accepted by getMessage the entry text has
\* the same length as the subject, its characters at positions 2..n are those
\* of the subject, and applying the operation to the text returns the text.
C8_SameLengthCapitalized ==
    Accepted =>
        LET s == call.commit.subject
            t == ret[1].text
        IN /\ Len(t) = Len(s)
           /\ <<t[1]>> = ToUpperCase(s[1])
           /\ \A i \in 2..Len(s) : t[i] = s[i]
           /\ (Len(ret) = 2 => ret[2] # Null /\ ret[2].text = t)

\* C8 (amended): the entry text is the upper-case form of the subject's first
\* character followed by the subject's characters 2..n unchanged; its length
\* is that of the subject whenever that upper-case form is one character; and
\* applying the operation to the text returns the text.
C8_FirstCharUpperRestUnchanged ==
    Accepted =>
        LET s == call.commit.subject
            t == ret[1].text
            u == ToUpperCase(s[1])
        IN /\ Len(t) = Len(u) + Len(s) - 1
           /\ SubSeq(t, 1, Len(u)) = u
           /\ SubSeq(t, Len(u) + 1, Len(t)) = SubSeq(s, 2, Len(s))
           /\ (Len(u) = 1 => Len(t) = Len(s) /\ \A i \in 2..Len(s) : t[i] = s[i])
           /\ (Len(ret) = 2 => ret[2] # Null /\ ret[2].text = t)

\* a lower-case subject of several characters was accepted, capitalized and
\* capitalized again
C8_Witness ==
    /\ Accepted
    /\ Len(ret) = 2
    /\ Len(call.commit.subject) = MaxSubjectLen
    /\ call.commit.subject[1] = "a"
    /\ call.commit.subject[2] = "b"
    /\ ret[1].text[1] = "A"

\* what the renderer is said to produce: a paragraph for each type that has
\* entries, and nothing at all for a type that has none
RECURSIVE OmittingEmpty(_, _)
OmittingEmpty(m, i) ==
    IF i > Len(support_types) THEN <<>>
    ELSE LET type == support_types[i]
             entries == IF type \in DOMAIN m THEN m[type] ELSE <<>>
         IN (IF entries = <<>> THEN <<>>
             ELSE <<type_titles[type], NL>> \o Join(entries, NL) \o <<NL, NL>>)
            \o OmittingEmpty(m, i + 1)

\* C6: a recognized type with zero entries contributes no characters to
\* getContent's result, whether its key is absent or maps to an empty list; a
\* type with entries contributes its header line and one line per entry.
C6_EmptyTypeOmitted ==
    (call.fn = "getContent" /\ ret # <<>>) =>
        ret[1] = OmittingEmpty(call.messages_with_type, 1)

\* C3: in every paginated fetch loop, once the data source has returned a
\* page with fewer items than the page size, the loop has exited and requests
\* no further page.
C3_StopsAtShortPage ==
    (loop.fn # "none" /\ loop.shortSeen) => loop.done

\* C7: when markLinearIssuesAsDone completes, every distinct issue id matched
\* in the associated pull-request bodies has been updated exactly once, with
\* the id of a workflow state named "Done" that belongs to the issue's own
\* team.
C7_EachIssueMovedToOwnTeamDone ==
    (call.fn = "markLinearIssuesAsDone" /\ ret # <<>> /\ ~ret[1].threw) =>
        LET ups == ret[1].updates
            ids == {MatchedIds(call.prLists)[i] : i \in DOMAIN MatchedIds(call.prLists)}
        IN /\ \A id \in ids : Cardinality({i \in DOMAIN ups : ups[i].issue = id}) = 1
           /\ \A i \in DOMAIN ups :
                \E k \in DOMAIN call.states :
                    /\ call.states[k].id = ups[i].stateId
                    /\ call.states[k].name = "Done"
                    /\ call.states[k].team = call.teamOf[ups[i].issue]
                    /\ call.states[k].team # NoTeam

\* the lines of a rendered text
RECURSIVE LinesFrom(_, _)
LinesFrom(s, cur) ==
    IF s = <<>> THEN <<cur>>
    ELSE IF Head(s) = NL THEN <<cur>> \o LinesFrom(Tail(s), <<>>)
    ELSE LinesFrom(Tail(s), Append(cur, Head(s)))

BodyLines == LinesFrom(full_content, <<>>)

Rendered == full_content # <<>>

\* the entry line a commit of CommitKinds yields when it is accepted
EntryOf(c) == <<"A", c.subject[2]>>

Contributes(c) == \E i \in DOMAIN BodyLines : BodyLines[i] = EntryOf(c)

EntryOfType(line, type) ==
    \E c \in CommitKinds : c.type = type /\ line = EntryOf(c)

\* the scopes actually listed in the dependent_scopes input
ListedScopes ==
    LET segs == Split(input.dependent_scopes)
    IN {Trim(segs[i]) : i \in DOMAIN segs} \ {<<>>}

\* C1: a fetched commit contributes an entry to the final changelog only if
\* its scope equals the configured scope or a scope listed in
\* dependent_scopes, or it has no scope and the configured scope is empty.
C1_OnlyConfiguredScopes ==
    Rendered =>
        \A i \in DOMAIN fetched :
            Contributes(fetched[i]) =>
                \/ fetched[i].scope = input.scope
                \/ fetched[i].scope \in ListedScopes
                \/ (fetched[i].scope = <<>> /\ input.scope = <<>>)

\* C2: in the final changelog every 'feat' entry line precedes every 'fix'
\* entry line, and each of the two headers appears at most once.
C2_EnhancementsThenFixes ==
    Rendered =>
        /\ \A t \in SupportTypeSet :
             Cardinality({i \in DOMAIN BodyLines : BodyLines[i] = <<type_titles[t]>>}) <= 1
        /\ \A i, j \in DOMAIN BodyLines :
             (EntryOfType(BodyLines[i], "feat") /\ EntryOfType(BodyLines[j], "fix"))
                 => i < j

MatchingTags == SelectSeq(tags, StartsWithPrefix)

\* C4: range resolution never returns a (from, to) pair when fewer than two
\* tags / releases matching the prefix exist.
C4_NoRangeBelowTwoMatches ==
    range # NoRange => Len(MatchingTags) >= 2

\* C5: a run in which a step threw, whatever the value thrown, ends with
\* core.setFailed called exactly once.
C5_ThrowSetsFailure ==
    (pc = "done" /\ thrown # "none") => Len(failed) = 1

\* the tag the range ends at, and the matching tag that precedes it
CurrentTag == IF variant = "update" THEN "cur" ELSE MatchingTags[1]

\* C9: the resolver returns (from, to) in the same direction in every
\* script: `to` is the commit of the current / most recent matching tag and
\* `from` the commit of another, earlier matching tag.
C9_FromPreviousToCurrent ==
    (range # NoRange /\ Len(MatchingTags) >= 2) =>
        /\ range.to = Sha(CurrentTag)
        /\ \E i \in DOMAIN MatchingTags :
             MatchingTags[i] # CurrentTag /\ range.from = Sha(MatchingTags[i])

CallsOf(name) == {k \in DOMAIN log : log[k].api = name}

LinearApis ==
    {"listPullRequestsAssociatedWithCommit", "linear.issue",
     "linear.workflowStates", "linear.issueUpdate"}

RefIsPrefixedTag == input.ref[1] = "refs/tags/" /\ input.ref[2] # "x"

\* C10: in the release-updating script updateRelease is called at most once,
\* and only after the gate passed and range resolution and commit fetching
\* succeeded; no call of the Linear step is made before updateRelease has
\* succeeded, nor when linear_api_key is empty; and when the ref does not
\* start with refs/tags/<tag_prefix> the run makes no call, renders nothing
\* and reports no failure.
C10_WritesInOrder ==
    variant = "update" =>
        /\ Cardinality(CallsOf("updateRelease")) <= 1
        /\ \A k \in CallsOf("updateRelease") :
             /\ RefIsPrefixedTag
             /\ range # NoRange
             /\ \A j \in 1..(k - 1) : log[j].ok
             /\ \E j \in 1..(k - 1) : log[j] = Api("getReleaseByTag", TRUE)
             /\ \E j \in 1..(k - 1) : log[j] = Api("compareCommitsWithBasehead", TRUE)
        /\ \A k \in DOMAIN log :
             log[k].api \in LinearApis =>
                 /\ input.linear_api_key # ""
                 /\ \E j \in 1..(k - 1) : log[j] = Api("updateRelease", TRUE)
        /\ ~RefIsPrefixedTag => (log = <<>> /\ failed = <<>> /\ full_content = <<>>)

\* a release-updating run that posted the changelog and then ran the Linear
\* step to its end
C10_Witness ==
    /\ variant = "update"
    /\ pc = "done"
    /\ thrown = "none"
    /\ \E k \in CallsOf("updateRelease") :
         /\ log[k].ok
         /\ \E j \in CallsOf("linear.workflowStates") : j > k /\ log[j].ok

\* the positions of the final changelog that hold an entry line
EntryLines ==
    {i \in DOMAIN BodyLines : \E c \in CommitKinds : BodyLines[i] = EntryOf(c)}

\* C11: in every script, whatever scope and dependent_scopes are (an empty
\* dependent_scopes with an empty scope, a dependent scope equal to the
\* primary scope), each fetched commit contributes at most one entry line to
\* the final changelog: the number of entry lines never exceeds the number of
\* fetched commits.
C11_AtMostOneEntryPerCommit ==
    Rendered => Cardinality(EntryLines) <= Len(fetched)

====
